---- MODULE Spec2Model ----
(***************************************************************************)
(* A model of pyzmail/generate.py: the transport sender (send_mail2 and    *)
(* its friendly wrapper send_mail), the message finalizer (complete_mail   *)
(* with format_addresses), the message builder (build_mail) and the        *)
(* EmbeddedFile.from_fp constructor with guess_mime_type.                  *)
(*                                                                         *)
(* Python strings that the code indexes or unpacks are sequences of        *)
(* one-character strings; Python's None is the token NoneVal.  The email   *)
(* and smtplib collaborators are an environment: each SMTP operation       *)
(* either succeeds or raises one of the exceptions smtplib documents.      *)
(* The code runs on Python 2 and Python 3 (it branches on six.PY2); PY2    *)
(* is the runtime the call happens on.                                     *)
(***************************************************************************)
EXTENDS Integers, Sequences, FiniteSets, TLC

VARIABLES
    PY2,            \* six.PY2: TRUE on Python 2, FALSE on Python 3 (3.4+)
    \* ---- send_mail / send_mail2
    smtp_mode,      \* argument: 'normal', 'ssl' or 'tls'
    smtp_login,     \* argument: None or a string
    smtp_password,  \* argument: None or a string
    rcpt_to,        \* argument: the envelope recipients handed to sendmail
    pc,             \* position of the call inside send_mail / send_mail2
    ops,            \* the SMTP operations attempted so far, in order
    sendmail_out,   \* outcome of smtp.sendmail(): its mapping or its exception
    quit_out,       \* outcome of smtp.quit()
    smtp,           \* the connection object: "none", "connected" or "closed"
    send_mail2_out, \* how send_mail2 was left: returned mapping or exception
    error,          \* send_mail's result: a mapping, a string, or a propagated exception
    \* ---- complete_mail
    message,        \* argument: the MIME node that gets stamped (mutated in place)
    sender,         \* argument: the sender address
    recipients,     \* argument: list of addresses
    cc,             \* argument: list of addresses
    bcc,            \* argument: list of addresses
    subject,        \* argument
    default_charset, \* argument
    message_id_string, \* argument: None or the seed of the Message-Id
    date,           \* argument: None or seconds from the epoch
    headers,        \* argument: extra (field, value) pairs
    completed,      \* how complete_mail ended and the tuple it returned
    again,          \* how a second complete_mail call on the same node ended
    header,         \* format_addresses: the Header it returned, or its exception
    \* ---- build_mail
    text,           \* argument: None or (content, charset)
    html,           \* argument: None or (content, charset)
    attachments,    \* argument: list of attachment entries
    embeddeds,      \* argument: list of embedded entries
    use_quoted_printable, \* argument
    built,          \* how build_mail ended and the node it returned
    \* ---- EmbeddedFile.from_fp
    fp,             \* argument: the file-like source
    from_fp_args,   \* arguments mime_type, content_id and filename
    from_fp_out     \* how from_fp ended and the EmbeddedFile it returned

sendVars == <<smtp_mode, smtp_login, smtp_password, rcpt_to, pc, ops,
              sendmail_out, quit_out, smtp, send_mail2_out, error>>

mailVars == <<message, sender, recipients, cc, bcc, subject, default_charset,
              message_id_string, date, headers, completed, again, header>>

buildVars == <<text, html, attachments, embeddeds, use_quoted_printable, built,
               fp, from_fp_args, from_fp_out>>

vars == <<PY2, sendVars, mailVars, buildVars>>

NoneVal == "<None>"

\* Python truthiness of an argument that is None or a string.
Truthy(x) == x # NoneVal /\ x # ""

(***************************************************************************)
(* Exceptions.  An exception value carries its class and the attributes    *)
(* the handlers read: e.recipients (SMTPRecipientsRefused) and e.sender    *)
(* (SMTPSenderRefused).                                                    *)
(***************************************************************************)
NoExc == [type |-> "None", recipients |-> {}, sender |-> ""]

Exc(t) == [type |-> t, recipients |-> {}, sender |-> ""]

\* The base class of each exception class.  On Python 3.4+ SMTPException
\* derives from OSError and socket.error is OSError itself; on Python 2
\* SMTPException derives from Exception directly.
Parent(cls, py2) ==
    CASE cls \in {"SMTPAuthenticationError", "SMTPSenderRefused",
                  "SMTPDataError", "SMTPHeloError", "SMTPConnectError"}
             -> "SMTPResponseException"
      [] cls \in {"SMTPResponseException", "SMTPRecipientsRefused",
                  "SMTPServerDisconnected"}
             -> "SMTPException"
      [] cls = "SMTPException" -> IF py2 THEN "Exception" ELSE "socket.error"
      [] cls = "socket.timeout" -> "socket.error"
      [] cls = "socket.error" -> "Exception"
      [] cls = "UnicodeEncodeError" -> "ValueError"
      [] cls = "ValueError" -> "Exception"
      [] cls = "Exception" -> "BaseException"
      [] cls = "KeyboardInterrupt" -> "BaseException"
      [] OTHER -> "object"

RECURSIVE IsSubclass(_, _, _)
IsSubclass(cls, base, py2) ==
    IF cls = base THEN TRUE
    ELSE IF cls = "object" THEN FALSE
    ELSE IsSubclass(Parent(cls, py2), base, py2)

\* isinstance(e, base) as an except clause evaluates it.
IsInstance(e, base, py2) == IsSubclass(e.type, base, py2)

(***************************************************************************)
(* send_mail2 and send_mail.                                               *)
(***************************************************************************)
Modes == {"normal", "ssl", "tls"}

RcptPool == {"b@bar.com", "c@d.com"}

mail_from_arg == "a@foo.com"

smtp_host == "localhost"

smtp_port == "25"

\* The (code, text) the server gave for a refused recipient.
Reply == <<550, "rejected">>

\* The mapping sendmail() returns: one entry per refused recipient.
Mapping(refused) == [a \in refused |-> Reply]

NoOutcome == [status |-> "none", ret |-> Mapping({}), exc |-> NoExc]

Returned(ret) == [status |-> "returned", ret |-> ret, exc |-> NoExc]

Raised(e) == [status |-> "raised", ret |-> Mapping({}), exc |-> e]

\* What each smtplib operation may raise (smtplib's documented exceptions,
\* plus one exception outside the SMTP/socket families).
ConnectErrors == {Exc("socket.error"), Exc("socket.timeout"), Exc("SMTPConnectError"),
                  Exc("SMTPServerDisconnected")}

StarttlsErrors == {Exc("SMTPHeloError"), Exc("SMTPException"), Exc("socket.error"),
                   Exc("ValueError")}

LoginErrors == {Exc("SMTPHeloError"), Exc("SMTPAuthenticationError"),
                Exc("SMTPException"), Exc("socket.error")}

SendmailErrors(rcpts) ==
    {Exc("SMTPHeloError"), Exc("SMTPDataError"), Exc("SMTPServerDisconnected"),
     Exc("socket.error"), Exc("UnicodeEncodeError"),
     [type |-> "SMTPRecipientsRefused", recipients |-> rcpts, sender |-> ""],
     [type |-> "SMTPSenderRefused", recipients |-> {}, sender |-> mail_from_arg]}

QuitErrors == {Exc("SMTPServerDisconnected"), Exc("socket.error")}

\* "if smtp_login and smtp_password" (line 637).
WantsLogin(login, password) == Truthy(login) /\ Truthy(password)

\* Where send_mail2 goes once the connection (and STARTTLS) is done.
AfterConnectNoLogin(login, password) == "sendmail"

AfterConnect(login, password) ==
    IF WantsLogin(login, password) THEN "login" ELSE "sendmail"

\* "except Exception as e: pass" around smtp.quit() (lines 648-651): whether
\* an exception raised by quit() is swallowed.
QuitSwallowed(e, py2) == IsInstance(e, "Exception", py2)

\* How send_mail2 is left after the try/finally (lines 645-653), given the
\* outcome of sendmail() and of quit(): a quit() exception that is not
\* swallowed replaces whatever was in flight; otherwise the sendmail()
\* exception continues, or "return ret" returns sendmail()'s mapping.
LeaveFinallyQuitWins(sm, q, py2) ==
    IF q.status = "raised" THEN Raised(q.exc)
    ELSE IF sm.status = "raised" THEN Raised(sm.exc)
    ELSE Returned(sm.ret)

LeaveFinally(sm, q, py2) ==
    IF q.status = "raised" /\ ~QuitSwallowed(q.exc, py2) THEN Raised(q.exc)
    ELSE IF sm.status = "raised" THEN Raised(sm.exc)
    ELSE Returned(sm.ret)

\* The except clauses of send_mail, in source order (lines 746-761).
HandlersNoGeneric ==
    << "socket.error", "SMTPAuthenticationError", "SMTPRecipientsRefused",
       "SMTPSenderRefused", "SMTPDataError", "SMTPHeloError" >>

Handlers ==
    << "socket.error", "SMTPAuthenticationError", "SMTPRecipientsRefused",
       "SMTPSenderRefused", "SMTPDataError", "SMTPHeloError", "SMTPException" >>

\* The first except clause that matches e, 0 when none does.
RECURSIVE FirstHandlerFrom(_, _, _)
FirstHandlerFrom(i, e, py2) ==
    IF i > Len(Handlers) THEN 0
    ELSE IF IsInstance(e, Handlers[i], py2) THEN i
    ELSE FirstHandlerFrom(i + 1, e, py2)

FirstHandler(e, py2) == FirstHandlerFrom(1, e, py2)

\* The orders in which a dict's keys may be iterated.
Orderings(S) ==
    {f \in [1..Cardinality(S) -> S] : \A i, j \in DOMAIN f : i # j => f[i] # f[j]}

\* sep.join(items) as a sequence of string fragments.
RECURSIVE Join(_, _)
Join(items, sep) ==
    IF Len(items) = 0 THEN <<>>
    ELSE IF Len(items) = 1 THEN <<items[1]>>
    ELSE <<items[1], sep>> \o Join(Tail(items), sep)

\* str(e): the exception's arguments; for SMTPRecipientsRefused the repr of
\* its recipients dict.
StrExc(e, keys) ==
    IF e.type = "SMTPRecipientsRefused" THEN <<"{">> \o Join(keys, ", ") \o <<"}">>
    ELSE IF e.type = "SMTPSenderRefused" THEN <<"(550, ", e.sender, ")">>
    ELSE <<"args of ", e.type>>

\* The string the h-th except clause assigns to error (lines 747-761), as a
\* sequence of fragments; keys is the iteration order of e.recipients.
ErrorMessage(h, e, keys) ==
    CASE h = 1 -> <<"server ", smtp_host, ":", smtp_port, " not responding: ">>
                  \o StrExc(e, keys)
      [] h = 2 -> <<"authentication error: ">> \o StrExc(e, keys)
      [] h = 3 -> <<"all recipients refused: ">> \o Join(keys, ", ")
      [] h = 4 -> <<"sender refused: ", e.sender>>
      [] h = 5 -> <<"SMTP protocol mismatch: ">> \o StrExc(e, keys)
      [] h = 6 -> <<"server didn't reply properly to the HELO greeting: ">>
                  \o StrExc(e, keys)
      [] h = 7 -> <<"SMTP error: ">> \o StrExc(e, keys)

ErrDict(d) == [shape |-> "dict", dict |-> d, str |-> <<>>, exc |-> NoExc]

ErrStr(s) == [shape |-> "str", dict |-> Mapping({}), str |-> s, exc |-> NoExc]

ErrRaise(e) == [shape |-> "raise", dict |-> Mapping({}), str |-> <<>>, exc |-> e]

SendInit ==
    /\ PY2 \in BOOLEAN
    /\ smtp_mode \in Modes
    /\ smtp_login \in {NoneVal, "me"}
    /\ smtp_password \in {NoneVal, "", "secret"}
    /\ rcpt_to \in (SUBSET RcptPool) \ {{}}
    /\ pc = "connect"
    /\ ops = <<>>
    /\ smtp = "none"
    /\ sendmail_out = NoOutcome
    /\ quit_out = NoOutcome
    /\ send_mail2_out = NoOutcome
    /\ error = ErrDict(Mapping({}))

\* send_mail2 raised before the try statement: the exception leaves
\* send_mail2 at once and reaches send_mail's except clauses.
RaiseOutside(e) ==
    /\ send_mail2_out' = Raised(e)
    /\ pc' = "except"

\* smtplib.SMTP_SSL(host, port) or smtplib.SMTP(host, port) (lines 630-633).
Connect ==
    /\ pc = "connect"
    /\ ops' = Append(ops, IF smtp_mode = "ssl" THEN "SMTP_SSL" ELSE "SMTP")
    /\ \/ /\ smtp' = "connected"
          /\ pc' = IF smtp_mode = "tls" THEN "starttls"
                   ELSE AfterConnect(smtp_login, smtp_password)
          /\ UNCHANGED send_mail2_out
       \/ \E e \in ConnectErrors :
            /\ RaiseOutside(e)
            /\ UNCHANGED smtp
    /\ UNCHANGED <<mailVars, buildVars, PY2, smtp_mode, smtp_login, smtp_password, rcpt_to,
                   sendmail_out, quit_out, error>>

\* smtp.starttls() (lines 634-635).
Starttls ==
    /\ pc = "starttls"
    /\ ops' = Append(ops, "starttls")
    /\ \/ /\ pc' = AfterConnect(smtp_login, smtp_password)
          /\ UNCHANGED send_mail2_out
       \/ \E e \in StarttlsErrors : RaiseOutside(e)
    /\ UNCHANGED <<mailVars, buildVars, PY2, smtp_mode, smtp_login, smtp_password, rcpt_to, smtp,
                   sendmail_out, quit_out, error>>

\* smtp.login(smtp_login, smtp_password) (lines 637-644).
Login ==
    /\ pc = "login"
    /\ ops' = Append(ops, "login")
    /\ \/ /\ pc' = "sendmail"
          /\ UNCHANGED send_mail2_out
       \/ \E e \in LoginErrors : RaiseOutside(e)
    /\ UNCHANGED <<mailVars, buildVars, PY2, smtp_mode, smtp_login, smtp_password, rcpt_to, smtp,
                   sendmail_out, quit_out, error>>

\* ret = smtp.sendmail(mail_from, rcpt_to, payload) inside the try (line 646):
\* it returns the mapping of the refused recipients when at least one
\* recipient was accepted, and raises otherwise.
Sendmail ==
    /\ pc = "sendmail"
    /\ ops' = Append(ops, "sendmail")
    /\ \/ \E refused \in (SUBSET rcpt_to) \ {rcpt_to} :
            sendmail_out' = Returned(Mapping(refused))
       \/ \E e \in SendmailErrors(rcpt_to) : sendmail_out' = Raised(e)
    /\ pc' = "finally"
    /\ UNCHANGED <<mailVars, buildVars, PY2, smtp_mode, smtp_login, smtp_password, rcpt_to, smtp,
                   quit_out, send_mail2_out, error>>

\* The finally clause (lines 647-653): smtp.quit() is attempted, its
\* exception is handled by "except Exception: pass", and send_mail2 is left.
Quit ==
    /\ pc = "finally"
    /\ ops' = Append(ops, "quit")
    /\ \/ /\ quit_out' = Returned(Mapping({}))
          /\ smtp' = "closed"
       \/ \E e \in QuitErrors :
            /\ quit_out' = Raised(e)
            /\ UNCHANGED smtp
    /\ send_mail2_out' = LeaveFinally(sendmail_out, quit_out', PY2)
    /\ pc' = IF send_mail2_out'.status = "raised" THEN "except" ELSE "else"
    /\ UNCHANGED <<mailVars, buildVars, PY2, smtp_mode, smtp_login, smtp_password, rcpt_to,
                   sendmail_out, error>>

\* send_mail's except clauses (lines 746-761): the first clause matching the
\* exception builds the error string; an exception no clause matches
\* propagates to the caller.
SendMailExcept ==
    /\ pc = "except"
    /\ LET e == send_mail2_out.exc
           h == FirstHandler(e, PY2)
       IN  IF h = 0 THEN error' = ErrRaise(e)
           ELSE \E keys \in Orderings(e.recipients) :
                    error' = ErrStr(ErrorMessage(h, e, keys))
    /\ pc' = "done"
    /\ UNCHANGED <<mailVars, buildVars, PY2, smtp_mode, smtp_login, smtp_password, rcpt_to, ops, smtp,
                   sendmail_out, quit_out, send_mail2_out>>

\* send_mail's else clause (lines 762-764): error = ret.
SendMailElse ==
    /\ pc = "else"
    /\ error' = ErrDict(send_mail2_out.ret)
    /\ pc' = "done"
    /\ UNCHANGED <<mailVars, buildVars, PY2, smtp_mode, smtp_login, smtp_password, rcpt_to, ops, smtp,
                   sendmail_out, quit_out, send_mail2_out>>

SendNext ==
    \/ Connect
    \/ Starttls
    \/ Login
    \/ Sendmail
    \/ Quit
    \/ SendMailExcept
    \/ SendMailElse


(***************************************************************************)
(* Properties of send_mail2 and send_mail.                                 *)
(***************************************************************************)
SendMail2Left == send_mail2_out.status # "none"

QuitAttempted == \E i \in DOMAIN ops : ops[i] = "quit"

\* The failure category an exception class belongs to, by the class's own
\* except clause in send_mail; 0 for a class outside the seven categories.
CategoryOf(e) ==
    CASE e.type \in {"socket.error", "socket.timeout"} -> 1
      [] e.type = "SMTPAuthenticationError" -> 2
      [] e.type = "SMTPRecipientsRefused" -> 3
      [] e.type = "SMTPSenderRefused" -> 4
      [] e.type = "SMTPDataError" -> 5
      [] e.type = "SMTPHeloError" -> 6
      [] e.type \in {"SMTPException", "SMTPServerDisconnected", "SMTPConnectError"} -> 7
      [] OTHER -> 0

\* The fixed text an except clause's message starts with.
CategoryPrefix(h) == Head(ErrorMessage(h, NoExc, <<>>))

\* C2: on every exit path of send_mail2 after the SMTP connection has been
\* opened (STARTTLS, login or sendmail failing, or all succeeding), smtp.quit()
\* has been attempted by the time send_mail2 returns or raises.
C2_QuitOnEveryExit ==
    (SendMail2Left /\ smtp # "none") => QuitAttempted

\* C3: for each of the seven failure categories send_mail2 can raise,
\* send_mail returns the message of that category's own except clause.
C3_OwnCategoryMessage ==
    (pc = "done" /\ send_mail2_out.status = "raised"
        /\ CategoryOf(send_mail2_out.exc) # 0)
    => /\ error.shape = "str"
       /\ Head(error.str) = CategoryPrefix(CategoryOf(send_mail2_out.exc))

\* C4: when send_mail2 fails with SMTPRecipientsRefused, send_mail returns a
\* string that begins with the 'all recipients refused' message and contains
\* every refused recipient address the exception carries.
C4_AllRecipientsRefused ==
    (pc = "done" /\ send_mail2_out.status = "raised"
        /\ send_mail2_out.exc.type = "SMTPRecipientsRefused")
    => /\ error.shape = "str"
       /\ Head(error.str) = "all recipients refused: "
       /\ \A r \in send_mail2_out.exc.recipients :
            \E i \in DOMAIN error.str : error.str[i] = r

C6_QuitErrorSwallowed ==
    (SendMail2Left /\ quit_out.status = "raised") =>
        /\ (sendmail_out.status = "raised")
              => (send_mail2_out = Raised(sendmail_out.exc))
        /\ (sendmail_out.status = "returned")
              => (send_mail2_out = Returned(sendmail_out.ret))

C6_Witness ==
    /\ SendMail2Left
    /\ quit_out.status = "raised"
    /\ sendmail_out.status = "raised"
    /\ send_mail2_out.exc.type = "SMTPDataError"

\* The place of an SMTP operation in the protocol.
OpRank(op) ==
    CASE op \in {"SMTP", "SMTP_SSL"} -> 1
      [] op = "starttls" -> 2
      [] op = "login" -> 3
      [] op = "sendmail" -> 4
      [] op = "quit" -> 5

Attempted(op) == \E i \in DOMAIN ops : ops[i] = op

\* C12: in every send_mail2 call the SMTP operations occur in the order
\* connect, STARTTLS (only in 'tls' mode), login (whenever login and password
\* are given), sendmail, quit: one connection is opened, nothing is repeated,
\* login never follows sendmail, STARTTLS never follows login, and sendmail
\* is issued at most once.
C12_OperationOrder ==
    /\ \A i, j \in DOMAIN ops : i < j => OpRank(ops[i]) < OpRank(ops[j])
    /\ ops # <<>> => OpRank(ops[1]) = 1
    /\ Attempted("starttls") => smtp_mode = "tls"
    /\ Attempted("login") => WantsLogin(smtp_login, smtp_password)
    /\ Attempted("sendmail") =>
          /\ smtp_mode = "tls" => Attempted("starttls")
          /\ WantsLogin(smtp_login, smtp_password) => Attempted("login")
    /\ Attempted("quit") => Attempted("sendmail")

C12_Witness ==
    /\ SendMail2Left
    /\ smtp_mode = "tls"
    /\ ops = <<"SMTP", "starttls", "login", "sendmail", "quit">>

(***************************************************************************)
(* Python values.  A str is [str |-> characters], a tuple is               *)
(* [tuple |-> items], a list is [list |-> items], None is PyNone.  A       *)
(* character is a one-character string; characters outside us-ascii are    *)
(* written by their code point.                                            *)
(***************************************************************************)
PyStr(chars) == [str |-> chars]

PyTuple(items) == [tuple |-> items]

PyList(items) == [list |-> items]

PyNone == [none |-> TRUE]

IsStr(v) == "str" \in DOMAIN v

IsTuple(v) == "tuple" \in DOMAIN v

IsList(v) == "list" \in DOMAIN v

IsNone(v) == "none" \in DOMAIN v

\* The elements a value yields when it is iterated or indexed.
Items(v) ==
    IF IsStr(v) THEN [i \in DOMAIN v.str |-> PyStr(<<v.str[i]>>)]
    ELSE IF IsTuple(v) THEN v.tuple
    ELSE IF IsList(v) THEN v.list
    ELSE <<>>

\* The result of an expression that may raise.
Ok(v) == [ok |-> TRUE, val |-> v, exc |-> "None"]

Fail(excType) == [ok |-> FALSE, val |-> PyNone, exc |-> excType]

\* v[i] with Python's 0-based index.
PyIndex(v, i) ==
    IF i < Len(Items(v)) THEN Ok(Items(v)[i + 1]) ELSE Fail("IndexError")

\* bool(v) for None, strings and sequences.
PyTruthy(v) == ~IsNone(v) /\ Len(Items(v)) > 0

NonAsciiChars == {"U+00E9", "U+0101"}

\* Characters iso-8859-1 cannot encode.
NonLatin1Chars == {"U+0101"}

\* utils.is_usascii(name): whether the text is pure us-ascii.
is_usascii(v) == \A i \in DOMAIN v.str : v.str[i] \notin NonAsciiChars

\* Whether text.encode(charset) succeeds.
Encodable(v, charset) ==
    CASE charset = "us-ascii" -> is_usascii(v)
      [] charset = "iso-8859-1" -> \A i \in DOMAIN v.str : v.str[i] \notin NonLatin1Chars
      [] OTHER -> TRUE

(***************************************************************************)
(* email.header.Header as format_addresses and complete_mail use it: a     *)
(* list of (text, charset) chunks.                                         *)
(***************************************************************************)
\* Header(charset=charset, header_name=header_name); charset None means us-ascii.
NewHeader(charset, header_name) ==
    [chunks |-> <<>>,
     charset |-> IF charset = NoneVal THEN "us-ascii" ELSE charset,
     header_name |-> header_name]

\* The charset Header.append stores with a text chunk.  Python 3 keeps the
\* requested charset when the text encodes in it, falls back to utf-8 when the
\* requested charset is us-ascii, and raises otherwise; Python 2 takes the
\* first of us-ascii, the requested charset and utf-8 that encodes the text.
ChunkCharset(txt, charset, py2) ==
    IF py2 THEN
        IF Encodable(txt, "us-ascii") THEN Ok("us-ascii")
        ELSE IF Encodable(txt, charset) THEN Ok(charset)
        ELSE Ok("utf-8")
    ELSE
        IF Encodable(txt, charset) THEN Ok(charset)
        ELSE IF charset = "us-ascii" THEN Ok("utf-8")
        ELSE Fail("UnicodeEncodeError")

\* header.append(txt, charset); charset NoneVal means the header's own.
\* hr is the header so far, or the failure that already happened.
HeaderAppend(hr, txt, charset, py2) ==
    IF ~hr.ok THEN hr
    ELSE LET cs == IF charset = NoneVal THEN hr.val.charset ELSE charset
             c  == ChunkCharset(txt, cs, py2)
         IN  IF ~c.ok THEN Fail(c.exc)
             ELSE Ok([hr.val EXCEPT !.chunks =
                        Append(@, [s |-> txt, charset |-> c.val])])

\* "name, addr = address": a value of exactly two elements unpacks, anything
\* else raises ValueError.
Unpack(address) ==
    IF Len(Items(address)) = 2 THEN Ok(Items(address)) ELSE Fail("ValueError")

\* email.utils.formataddr((name, addr)) for names without special characters.
formataddr(name, addr) ==
    IF Len(name.str) > 0 THEN PyStr(name.str \o <<" ", "<">> \o addr.str \o <<">">>)
    ELSE addr

\* The body of format_addresses' loop for the i-th address (1-based).
FormatOneAlwaysSeparated(hr, i, address, py2) ==
    LET sep == HeaderAppend(hr, PyStr(<<",">>), "us-ascii", py2)
        u   == Unpack(address)
    IN  IF ~u.ok THEN HeaderAppend(sep, address, "us-ascii", py2)
        ELSE HeaderAppend(sep, formataddr(u.val[1], u.val[2]), "us-ascii", py2)

FormatOne(hr, i, address, py2) ==
    LET sep == IF i # 1 THEN HeaderAppend(hr, PyStr(<<",">>), "us-ascii", py2) ELSE hr
        u   == Unpack(address)
    IN  IF ~u.ok THEN HeaderAppend(sep, address, "us-ascii", py2)
        ELSE LET name == u.val[1]
                 addr == u.val[2]
             IN  IF is_usascii(name)
                 THEN HeaderAppend(sep, formataddr(name, addr), "us-ascii", py2)
                 ELSE HeaderAppend(
                          HeaderAppend(sep, name, NoneVal, py2),
                          PyStr(<<"<">> \o addr.str \o <<">">>), "us-ascii", py2)

RECURSIVE FormatFrom(_, _, _, _)
FormatFrom(hr, i, addresses, py2) ==
    IF i > Len(addresses) THEN hr
    ELSE FormatFrom(FormatOne(hr, i, addresses[i], py2), i + 1, addresses, py2)

\* format_addresses(addresses, header_name, charset): the Header, or the
\* exception Header.append raised.
format_addresses(addresses, header_name, charset, py2) ==
    FormatFrom(Ok(NewHeader(charset, header_name)), 1, addresses, py2)

\* email.header.Header(text, charset).
MakeHeader(txt, charset, py2) ==
    HeaderAppend(Ok(NewHeader(charset, NoneVal)), txt, NoneVal, py2)

(***************************************************************************)
(* MIME nodes (email.mime): a node is a record with its headers in order   *)
(* and either a payload (a leaf) or its children (a multipart).  oid is    *)
(* the identity of an object the caller built; nodes the code builds have  *)
(* oid 0.                                                                  *)
(***************************************************************************)
HeaderField(field, value) == [field |-> field, value |-> value]

ContentType(maintype, subtype, charset) ==
    HeaderField("Content-Type",
                [maintype |-> maintype, subtype |-> subtype, charset |-> charset])

PlainValue(txt) == [text |-> txt]

\* The Content-Transfer-Encoding email.charset picks for a charset's body.
BodyEncoding(charset) ==
    CASE charset = "us-ascii" -> "7bit"
      [] charset = "iso-8859-1" -> "quoted-printable"
      [] charset \in {"utf-8", "utf8"} -> "base64"
      [] OTHER -> "7bit"

\* email.mime.text.MIMEText(content, subtype, charset).
MIMEText(content, subtype, charset) ==
    [node |-> "leaf", oid |-> 0,
     headers |-> << ContentType("text", subtype, charset),
                    HeaderField("MIME-Version", PlainValue("1.0")),
                    HeaderField("Content-Transfer-Encoding",
                                PlainValue(BodyEncoding(charset))) >>,
     payload |-> content]

\* message[field] = value: email.message.Message.__setitem__ appends the
\* header and keeps any header of the same name.
SetItem(msg, field, value) ==
    [msg EXCEPT !.headers = Append(@, HeaderField(field, value))]

\* name.lower() for the header names in use.
Lower(name) ==
    CASE name \in {"To", "TO"} -> "to"
      [] name \in {"Cc", "CC"} -> "cc"
      [] name \in {"Bcc", "BCC"} -> "bcc"
      [] name = "From" -> "from"
      [] OTHER -> name

\* "field in message": header names match whatever their letter case.
HasHeader(msg, field) ==
    \E i \in DOMAIN msg.headers : Lower(msg.headers[i].field) = Lower(field)

\* message.as_string(): the headers in order, then the body.
AsString(msg) ==
    [lines |-> msg.headers,
     body |-> IF msg.node = "leaf" THEN <<msg.payload>> ELSE msg.children]

(***************************************************************************)
(* complete_mail.                                                          *)
(***************************************************************************)
PyInt(n) == [int |-> n]

\* getaddr(address) (lines 490-494).
getaddr(address) ==
    IF IsTuple(address) THEN PyIndex(address, 1) ELSE Ok(address)

\* list(map(getaddr, addresses)): the list, or the first exception.
RECURSIVE MapGetaddr(_)
MapGetaddr(addresses) ==
    IF Len(addresses) = 0 THEN Ok(<<>>)
    ELSE LET h == getaddr(Head(addresses))
             t == MapGetaddr(Tail(addresses))
         IN  IF ~h.ok THEN Fail(h.exc)
             ELSE IF ~t.ok THEN Fail(t.exc)
             ELSE Ok(<<h.val>> \o t.val)

\* mail_from = getaddr(sender[1]) (line 496).
MailFrom(sndr) ==
    LET second == PyIndex(sndr, 1)
    IN  IF ~second.ok THEN Fail(second.exc) ELSE getaddr(second.val)

\* rcpt_to: recipients, extended by cc, extended by bcc (lines 497-499).
RcptToBccFirst(rcpts, ccs, bccs) ==
    LET r == MapGetaddr(rcpts)
        c == MapGetaddr(ccs)
        b == MapGetaddr(bccs)
    IN  IF ~r.ok THEN Fail(r.exc)
        ELSE IF ~c.ok THEN Fail(c.exc)
        ELSE IF ~b.ok THEN Fail(b.exc)
        ELSE Ok(r.val \o b.val \o c.val)

RcptTo(rcpts, ccs, bccs) ==
    LET r == MapGetaddr(rcpts)
        c == MapGetaddr(ccs)
        b == MapGetaddr(bccs)
    IN  IF ~r.ok THEN Fail(r.exc)
        ELSE IF ~c.ok THEN Fail(c.exc)
        ELSE IF ~b.ok THEN Fail(b.exc)
        ELSE Ok(r.val \o c.val \o b.val)

\* The state of the message while complete_mail runs: fr.msg is the node as
\* mutated so far, fr.ok is FALSE once a statement has raised fr.exc.
Frame(msg) == [ok |-> TRUE, msg |-> msg, exc |-> "None"]

FrameRaise(fr, excType) == [ok |-> FALSE, msg |-> fr.msg, exc |-> excType]

\* message[field] = <expression>, where the expression gave vr.
Stamp(fr, field, vr) ==
    IF ~fr.ok THEN fr
    ELSE IF ~vr.ok THEN FrameRaise(fr, vr.exc)
    ELSE [fr EXCEPT !.msg = SetItem(@, field, vr.val)]

\* "if recipients:" / "if cc:" (lines 508-513).
StampAddressesAlways(fr, field, addresses, header_name, charset, py2) ==
    IF ~fr.ok THEN fr
    ELSE Stamp(fr, field, format_addresses(addresses, header_name, charset, py2))

StampAddresses(fr, field, addresses, header_name, charset, py2) ==
    IF ~fr.ok \/ Len(addresses) = 0 THEN fr
    ELSE Stamp(fr, field, format_addresses(addresses, header_name, charset, py2))

\* "if date: utc_from_epoch = date else: utc_from_epoch = time.time()"
\* (lines 515-518); now is the value time.time() returns.
UtcFromEpoch(d, now) ==
    IF ~IsNone(d) /\ d.int # 0 THEN d.int ELSE now

\* email.utils.formatdate(utc_from_epoch, localtime=True).
formatdate(utc) == [formatdate |-> utc, localtime |-> TRUE]

HostName == "host.internal"

\* email.utils.make_msgid(idstring): '<' unique '.' idstring '@' hostname '>'.
make_msgid(idstring, unique) ==
    PyStr(<<"<", unique, ".">> \o idstring.str \o <<"@", HostName, ">">>)

\* The position of the last occurrence of ch in chars, 0 when there is none.
LastIndexOf(chars, ch) ==
    LET hits == {i \in DOMAIN chars : chars[i] = ch}
    IN  IF hits = {} THEN 0 ELSE CHOOSE i \in hits : \A j \in hits : j <= i

\* Lines 521-542: the generated message id, None without a seed.
MessageIdKeepHost(seed, unique) ==
    IF ~PyTruthy(seed) THEN Ok(PyNone) ELSE Ok(make_msgid(seed, unique))

MessageId(seed, unique) ==
    IF ~PyTruthy(seed) THEN Ok(PyNone)
    ELSE LET generated == make_msgid(seed, unique)
         IN  IF \E i \in DOMAIN seed.str : seed.str[i] = "@"
             THEN LET cut == LastIndexOf(generated.str, "@")
                      stripped == PyStr(SubSeq(generated.str, 1, cut - 1) \o <<">">>)
                  IN  IF \E i \in DOMAIN stripped.str : stripped.str[i] = "@"
                      THEN Ok(stripped) ELSE Fail("AssertionError")
             ELSE Ok(generated)

StampMessageId(fr, mid) ==
    IF ~fr.ok THEN fr
    ELSE IF ~mid.ok THEN FrameRaise(fr, mid.exc)
    ELSE IF IsNone(mid.val) THEN fr
    ELSE Stamp(fr, "Message-Id", mid)

\* Lines 544-548: each extra (field, value) pair; a Header instance is used
\* as it is, any other value goes through Header(value, default_charset).
RECURSIVE StampExtra(_, _, _, _)
StampExtra(fr, extra, charset, py2) ==
    IF ~fr.ok \/ Len(extra) = 0 THEN fr
    ELSE LET field == Head(extra)[1]
             value == Head(extra)[2]
             vr == IF "chunks" \in DOMAIN value THEN Ok(value)
                   ELSE MakeHeader(value, charset, py2)
         IN  StampExtra(Stamp(fr, field, vr), Tail(extra), charset, py2)

NotCompleted ==
    [status |-> "none", payload |-> PyNone, mail_from |-> PyNone,
     rcpt_to |-> <<>>, msg_id |-> PyNone, exc |-> "None"]

\* complete_mail (lines 490-552): the node as it is left, and the returned
\* tuple or the exception.
CompleteMailResult(msg, sndr, rcpts, ccs, bccs, subj, charset, seed, d, extra, py2, now, unique) ==
    LET mf == MailFrom(sndr)
        rt == RcptTo(rcpts, ccs, bccs)
        f0 == Frame(msg)
        f1 == IF ~mf.ok THEN FrameRaise(f0, mf.exc)
              ELSE IF ~rt.ok THEN FrameRaise(f0, rt.exc)
              ELSE f0
        f2 == Stamp(f1, "From", format_addresses(<<sndr>>, "from", charset, py2))
        f3 == StampAddresses(f2, "To", rcpts, "to", charset, py2)
        f4 == StampAddresses(f3, "Cc", ccs, "cc", charset, py2)
        f5 == Stamp(f4, "Subject", MakeHeader(subj, charset, py2))
        f6 == Stamp(f5, "Date", Ok(formatdate(UtcFromEpoch(d, now))))
        mid == MessageId(seed, unique)
        f7 == StampMessageId(f6, mid)
        f8 == StampExtra(f7, extra, charset, py2)
    IN  [msg |-> f8.msg,
         out |-> IF f8.ok
                 THEN [status |-> "returned", payload |-> AsString(f8.msg),
                       mail_from |-> mf.val, rcpt_to |-> rt.val,
                       msg_id |-> mid.val, exc |-> "None"]
                 ELSE [NotCompleted EXCEPT !.status = "raised", !.exc = f8.exc]]

\* ---- the calls of complete_mail that are explored
MaxAddrs == 3

Mailbox1 == PyStr(<<"m", "e", "@", "f">>)

Mailbox2 == PyStr(<<"h", "e", "r", "@", "b">>)

Mailbox3 == PyStr(<<"l", "@", "o">>)

\* ('Me', 'me@f'), 'her@b' and a pair whose name is not us-ascii.
AddrPool ==
    { PyTuple(<<PyStr(<<"M", "e">>), Mailbox1>>),
      Mailbox2,
      PyTuple(<<PyStr(<<"L", "U+0101">>), Mailbox3>>) }

SeqsUpTo(S, n) == UNION {[1..k -> S] : k \in 0..n}

\* The extra-header lists tried: none, a text value, a Header instance, and
\* lists that name an addressing field.
HeaderLists ==
    { <<>>,
      << <<"User-Agent", PyStr(<<"p", "z">>)>> >>,
      << <<"X-Tag", NewHeader("us-ascii", NoneVal)>>, <<"To", Mailbox3>> >>,
      << <<"Bcc", Mailbox3>> >> }

Clock == {1313558269}

Uniques == {"20110817.1234.5678", "20110817.1234.9999"}

FreshMessage == MIMEText("The text.", "plain", "us-ascii")

\* format_addresses has not been called.
NotFormatted == Fail("not called")

FormatIdle == header = NotFormatted

MailIdle ==
    /\ message = FreshMessage
    /\ sender = PyNone
    /\ recipients = <<>>
    /\ cc = <<>>
    /\ bcc = <<>>
    /\ subject = PyNone
    /\ default_charset = NoneVal
    /\ message_id_string = PyNone
    /\ date = PyNone
    /\ headers = <<>>
    /\ completed = NotCompleted
    /\ again = NotCompleted
    /\ FormatIdle

SendIdle ==
    /\ smtp_mode = "normal"
    /\ smtp_login = NoneVal
    /\ smtp_password = NoneVal
    /\ rcpt_to = {}
    /\ pc = "idle"
    /\ ops = <<>>
    /\ smtp = "none"
    /\ sendmail_out = NoOutcome
    /\ quit_out = NoOutcome
    /\ send_mail2_out = NoOutcome
    /\ error = ErrDict(Mapping({}))

NotBuilt == [status |-> "none", main |-> PyNone, exc |-> "None"]

\* EmbeddedFile.from_fp has not been called.
NoFile == [name |-> PyNone, content |-> ""]

NoArgs == [mime_type |-> PyNone, content_id |-> PyNone, filename |-> PyNone]

NotRead == [status |-> "none", file |-> PyNone, exc |-> "None"]

FromFpIdle ==
    /\ fp = NoFile
    /\ from_fp_args = NoArgs
    /\ from_fp_out = NotRead

BuildIdle ==
    /\ text = PyNone
    /\ html = PyNone
    /\ attachments = <<>>
    /\ embeddeds = <<>>
    /\ use_quoted_printable = FALSE
    /\ built = NotBuilt
    /\ FromFpIdle

\* A call of complete_mail on a freshly built body: addresses from AddrPool,
\* at most MaxAddrs of them over recipients, cc and bcc.
CompleteInit ==
    /\ PY2 \in BOOLEAN
    /\ message = FreshMessage
    /\ sender \in AddrPool
    /\ recipients \in SeqsUpTo(AddrPool, MaxAddrs)
    /\ cc \in SeqsUpTo(AddrPool, MaxAddrs - Len(recipients))
    /\ bcc \in SeqsUpTo(AddrPool, MaxAddrs - Len(recipients) - Len(cc))
    /\ subject = PyStr(<<"H", "i">>)
    /\ default_charset \in {"iso-8859-1", "utf-8"}
    /\ message_id_string = PyNone
    /\ date = PyNone
    /\ headers \in HeaderLists
    /\ completed = NotCompleted
    /\ again = NotCompleted
    /\ FormatIdle
    /\ SendIdle
    /\ BuildIdle

\* complete_mail(message, sender, recipients, subject, default_charset, cc,
\* bcc, message_id_string, date, headers).
CompleteMail ==
    /\ completed.status = "none"
    /\ ~IsNone(sender)
    /\ \E now \in Clock, unique \in Uniques :
         LET r == CompleteMailResult(message, sender, recipients, cc, bcc, subject,
                                     default_charset, message_id_string, date,
                                     headers, PY2, now, unique)
         IN  /\ message' = r.msg
             /\ completed' = r.out
    /\ UNCHANGED <<PY2, sendVars, buildVars, sender, recipients, cc, bcc, subject,
                   default_charset, message_id_string, date, headers, again, header>>

CompleteNext == CompleteMail

(***************************************************************************)
(* Properties of complete_mail.                                            *)
(***************************************************************************)
\* The mailbox part of an address: the second element of a (name, mailbox)
\* pair, the whole string of a bare mailbox.
MailboxOf(address) == IF IsTuple(address) THEN address.tuple[2] ELSE address

MailboxesOf(addresses) == [i \in DOMAIN addresses |-> MailboxOf(addresses[i])]

CompleteReturned == completed.status = "returned"

\* C1: for every sender that is a valid address, a (name, mailbox) pair or a
\* bare mailbox string, complete_mail returns mail_from equal to the sender's
\* full mailbox string.
C1_MailFromIsSenderMailbox ==
    CompleteReturned => completed.mail_from = MailboxOf(sender)

\* C7: rcpt_to is the mailbox parts of recipients, then of cc, then of bcc,
\* each list in input order with duplicates kept, so its length is the sum of
\* the three lengths.
C7_RcptToIsConcatenation ==
    CompleteReturned =>
        /\ completed.rcpt_to =
              MailboxesOf(recipients) \o MailboxesOf(cc) \o MailboxesOf(bcc)
        /\ Len(completed.rcpt_to) = Len(recipients) + Len(cc) + Len(bcc)

C7_Witness ==
    /\ CompleteReturned
    /\ Len(recipients) = 1 /\ Len(cc) = 1 /\ Len(bcc) = 1
    /\ recipients[1] = bcc[1]
    /\ cc[1] # bcc[1]

\* C8 as stated: after complete_mail on a body without addressing headers, a
\* To header is present iff recipients is non-empty, a Cc header iff cc is
\* non-empty, no Bcc header is present, and every bcc mailbox is in rcpt_to.
C8_AddressingHeaders ==
    CompleteReturned =>
        /\ HasHeader(message, "To") <=> (Len(recipients) > 0)
        /\ HasHeader(message, "Cc") <=> (Len(cc) > 0)
        /\ ~HasHeader(message, "Bcc")
        /\ \A i \in DOMAIN bcc :
              \E j \in DOMAIN completed.rcpt_to : completed.rcpt_to[j] = MailboxOf(bcc[i])

\* The extra headers argument names no To, Cc or Bcc field.
NoAddressingExtra ==
    \A i \in DOMAIN headers : Lower(headers[i][1]) \notin {"to", "cc", "bcc"}

\* C8 amended: the same, for calls whose extra headers argument names no
\* addressing field.
C8_AddressingHeadersAmended ==
    (CompleteReturned /\ NoAddressingExtra) =>
        /\ HasHeader(message, "To") <=> (Len(recipients) > 0)
        /\ HasHeader(message, "Cc") <=> (Len(cc) > 0)
        /\ ~HasHeader(message, "Bcc")
        /\ \A i \in DOMAIN bcc :
              \E j \in DOMAIN completed.rcpt_to : completed.rcpt_to[j] = MailboxOf(bcc[i])

C8_Witness ==
    /\ CompleteReturned
    /\ NoAddressingExtra
    /\ Len(recipients) = 0 /\ Len(cc) > 0 /\ Len(bcc) > 0
    /\ ~HasHeader(message, "To") /\ HasHeader(message, "Cc")

(***************************************************************************)
(* complete_mail with a date and a message-id seed, called once and then   *)
(* a second time on the node the first call stamped.                       *)
(***************************************************************************)
MaxStampAddrs == 1

\* The address forms of AddrPool, a (name, mailbox) pair given as a list
\* and a bare string of two characters.
AddrPoolWide ==
    AddrPool \cup { PyList(<<PyStr(<<"H", "i", "m">>), PyStr(<<"h", "@", "b">>)>>),
                    PyStr(<<"a", "b">>) }

\* No date, the epoch itself and a later second.
DatePool == {PyNone, PyInt(0), PyInt(86400)}

\* No seed, an application name and a seed that names its own host.
SeedPool ==
    { PyNone,
      PyStr(<<"p", "z">>),
      PyStr(<<"f", "o", "o", "@", "my.host.example">>) }

StampInit ==
    /\ PY2 \in BOOLEAN
    /\ message = FreshMessage
    /\ sender \in AddrPoolWide
    /\ recipients \in SeqsUpTo(AddrPoolWide, MaxStampAddrs)
    /\ cc \in SeqsUpTo(AddrPoolWide, MaxStampAddrs - Len(recipients))
    /\ bcc = <<>>
    /\ subject = PyStr(<<"H", "i">>)
    /\ default_charset \in {"iso-8859-1", "utf-8"}
    /\ message_id_string \in SeedPool
    /\ date \in DatePool
    /\ headers \in {<<>>, << <<"User-Agent", PyStr(<<"p", "z">>)>> >>}
    /\ completed = NotCompleted
    /\ again = NotCompleted
    /\ FormatIdle
    /\ SendIdle
    /\ BuildIdle

\* complete_mail called a second time with the same arguments on the node the
\* first call returned from.
CompleteMailAgain ==
    /\ completed.status = "returned"
    /\ again.status = "none"
    /\ \E now \in Clock, unique \in Uniques :
         LET r == CompleteMailResult(message, sender, recipients, cc, bcc, subject,
                                     default_charset, message_id_string, date,
                                     headers, PY2, now, unique)
         IN  /\ message' = r.msg
             /\ again' = r.out
    /\ UNCHANGED <<PY2, sendVars, buildVars, sender, recipients, cc, bcc, subject,
                   default_charset, message_id_string, date, headers, completed, header>>

StampNext ==
    \/ CompleteMail
    \/ CompleteMailAgain

\* C11: finalizing the same node twice with identical arguments (a fixed
\* date, a fixed message-id seed) yields the same payload both times.
C11_SamePayloadTwice ==
    (again.status = "returned" /\ ~IsNone(date) /\ ~IsNone(message_id_string)) =>
        again.payload = completed.payload

\* The value of the first header of a node with the given field name.
HeaderValue(msg, field) ==
    LET hits == {i \in DOMAIN msg.headers : Lower(msg.headers[i].field) = Lower(field)}
    IN  msg.headers[CHOOSE i \in hits : \A j \in hits : i <= j].value

\* C13: for every explicit timestamp passed as date, 0 included, the Date
\* header is the formatting of exactly that timestamp; the current time is
\* used only when date is None.
C13_DateIsTheGivenTimestamp ==
    CompleteReturned =>
        /\ ~IsNone(date) => HeaderValue(message, "Date") = formatdate(date.int)
        /\ IsNone(date) => \E now \in Clock : HeaderValue(message, "Date") = formatdate(now)

\* A message id is '<' local '@' domain '>' with a single '@'.
AtPositions(chars) == {i \in DOMAIN chars : chars[i] = "@"}

WellFormedId(chars) ==
    /\ Len(chars) >= 5
    /\ chars[1] = "<"
    /\ chars[Len(chars)] = ">"
    /\ Cardinality(AtPositions(chars)) = 1
    /\ \A i \in AtPositions(chars) : 2 < i /\ i < Len(chars) - 1

\* The characters after the first '@' of a string, up to but without a
\* closing '>'.
AfterAt(chars) ==
    LET first == CHOOSE i \in AtPositions(chars) : \A j \in AtPositions(chars) : i <= j
        last == IF chars[Len(chars)] = ">" THEN Len(chars) - 1 ELSE Len(chars)
    IN  SubSeq(chars, first + 1, last)

SeedGiven == PyTruthy(message_id_string)

FormatsAsPair(address) == Unpack(address).ok

\* The envelope entry agrees with the way format_addresses reads the
\* address: the mailbox of a pair, the whole of a bare string.
EnvelopeAgrees(address, entry) ==
    /\ IsStr(entry)
    /\ entry = IF FormatsAsPair(address) THEN Unpack(address).val[2] ELSE address

\* C19: for every address in sender, recipients or cc the header formatter
\* and the envelope computation classify it the same way, and the envelope
\* holds strings only.
C19_SameClassification ==
    CompleteReturned =>
        /\ EnvelopeAgrees(sender, completed.mail_from)
        /\ \A i \in DOMAIN recipients : EnvelopeAgrees(recipients[i], completed.rcpt_to[i])
        /\ \A i \in DOMAIN cc :
              EnvelopeAgrees(cc[i], completed.rcpt_to[Len(recipients) + i])

(***************************************************************************)
(* format_addresses called on its own, as complete_mail calls it for the   *)
(* To header: format_addresses(recipients, header_name='to',               *)
(* charset=default_charset).                                               *)
(***************************************************************************)
MaxFormat == 3

\* The address forms of AddrPool and a bare string of two characters.
FormatPool == AddrPool \cup {PyStr(<<"a", "b">>)}

FormatInit ==
    /\ PY2 \in BOOLEAN
    /\ recipients \in SeqsUpTo(FormatPool, MaxFormat)
    /\ default_charset \in {"us-ascii", "iso-8859-1", "utf-8"}
    /\ header = NotFormatted
    /\ message = FreshMessage
    /\ sender = PyNone
    /\ cc = <<>>
    /\ bcc = <<>>
    /\ subject = PyNone
    /\ message_id_string = PyNone
    /\ date = PyNone
    /\ headers = <<>>
    /\ completed = NotCompleted
    /\ again = NotCompleted
    /\ SendIdle
    /\ BuildIdle

FormatAddresses ==
    /\ header = NotFormatted
    /\ header' = format_addresses(recipients, "to", default_charset, PY2)
    /\ UNCHANGED <<PY2, sendVars, buildVars, message, sender, recipients, cc, bcc,
                   subject, default_charset, message_id_string, date, headers,
                   completed, again>>

FormatNext == FormatAddresses

\* The fragment format_addresses puts between two addresses.
Separator == [s |-> PyStr(<<",">>), charset |-> "us-ascii"]

Fragments == header.val.chunks

\* The fragments of the i-th address formatted on its own.
Alone(i) == format_addresses(<<recipients[i]>>, "to", default_charset, PY2).val.chunks

\* The fragments of the first k addresses, each formatted on its own, with
\* one separator between consecutive addresses.
RECURSIVE Separated(_)
Separated(k) ==
    IF k = 0 THEN <<>>
    ELSE Separated(k - 1) \o (IF k > 1 THEN <<Separator>> ELSE <<>>) \o Alone(k)

\* C16: format_addresses emits the addresses in input order with no sorting
\* or de-duplication, one ',' separator fragment between each two consecutive
\* addresses and none before the first or after the last (n addresses give
\* n-1 separators), and an empty header value for zero addresses.
C16_OrderAndSeparators ==
    header.ok =>
        /\ Len(recipients) = 0 => Fragments = <<>>
        /\ Len(recipients) > 0 =>
              /\ Cardinality({i \in DOMAIN Fragments : Fragments[i] = Separator})
                    = Len(recipients) - 1
              /\ Fragments[1] # Separator
              /\ Fragments[Len(Fragments)] # Separator
        /\ Fragments = Separated(Len(recipients))

C16_Witness ==
    /\ header.ok
    /\ Len(recipients) = 3
    /\ recipients[1] = recipients[3]
    /\ recipients[1] # recipients[2]
    /\ Cardinality({i \in DOMAIN Fragments : Fragments[i] = Separator}) = 2

\* The fragments of the header cut at the separators: one group per address.
RECURSIVE GroupsOf(_)
GroupsOf(chunks) ==
    IF \A i \in DOMAIN chunks : chunks[i] # Separator THEN <<chunks>>
    ELSE LET cut == CHOOSE i \in DOMAIN chunks :
                        /\ chunks[i] = Separator
                        /\ \A j \in 1..(i - 1) : chunks[j] # Separator
         IN  <<SubSeq(chunks, 1, cut - 1)>> \o GroupsOf(SubSeq(chunks, cut + 1, Len(chunks)))

EndsWith(chars, tail) ==
    /\ Len(chars) >= Len(tail)
    /\ SubSeq(chars, Len(chars) - Len(tail) + 1, Len(chars)) = tail

\* C18: every address given as a bare string, whatever its length, is
\* appended verbatim as a single us-ascii fragment with no display name; only
\* an address given as a (name, mailbox) pair is rendered 'name <mailbox>',
\* the mailbox always in a us-ascii fragment.
C18_BareStringsVerbatim ==
    (header.ok /\ Len(recipients) > 0) =>
        /\ Len(GroupsOf(Fragments)) = Len(recipients)
        /\ \A i \in DOMAIN recipients :
              LET group == GroupsOf(Fragments)[i]
              IN  IF IsStr(recipients[i])
                  THEN group = << [s |-> recipients[i], charset |-> "us-ascii"] >>
                  ELSE /\ Len(group) > 0
                       /\ group[Len(group)].charset = "us-ascii"
                       /\ EndsWith(group[Len(group)].s.str,
                                   <<"<">> \o recipients[i].tuple[2].str \o <<">">>)

(***************************************************************************)
(* build_mail, Attachment and EmbeddedFile.  Values the code only passes   *)
(* on (data, MIME types, charsets) are plain strings, None being NoneVal;  *)
(* file names are strs.                                                    *)
(***************************************************************************)
\* email.mime.multipart.MIMEMultipart(subtype, None, subparts).
MIMEMultipart(subtype, subparts) ==
    [node |-> "multipart", oid |-> 0,
     headers |-> << ContentType("multipart", subtype, NoneVal),
                    HeaderField("MIME-Version", PlainValue("1.0")) >>,
     children |-> subparts]

\* node.attach(part).
Attach(parent, part) == [parent EXCEPT !.children = Append(@, part)]

\* part.add_header(field, value).
AddHeader(part, field, value) ==
    [part EXCEPT !.headers = Append(@, HeaderField(field, value))]

\* build_mimetext_part (lines 132-150): MIMEText with the charset's own
\* body encoding, or a text part whose payload is set with a charset whose
\* body encoding is forced to quoted-printable.
build_mimetext_part_default(content, charset, mime_subtype, qp) ==
    MIMEText(content, mime_subtype, charset)

build_mimetext_part(content, charset, mime_subtype, qp) ==
    IF ~qp THEN MIMEText(content, mime_subtype, charset)
    ELSE [node |-> "leaf", oid |-> 0,
          headers |-> << ContentType("text", mime_subtype, charset),
                         HeaderField("MIME-Version", PlainValue("1.0")),
                         HeaderField("Content-Transfer-Encoding",
                                     PlainValue("quoted-printable")) >>,
          payload |-> content]

\* build_mime_part (lines 153-162).
build_mime_part(data, maintype, subtype, charset, qp) ==
    IF maintype = "text" THEN build_mimetext_part(data, charset, subtype, qp)
    ELSE [node |-> "leaf", oid |-> 0,
          headers |-> << ContentType(maintype, subtype, NoneVal),
                         HeaderField("MIME-Version", PlainValue("1.0")),
                         HeaderField("Content-Transfer-Encoding", PlainValue("base64")) >>,
          payload |-> data]

\* Attachment.__new__ (lines 170-184).
Attachment(data, maintype, subtype, filename, charset, qp) ==
    [cls |-> "Attachment", data |-> data, maintype |-> maintype, subtype |-> subtype,
     filename |-> filename, charset |-> charset, use_quoted_printable |-> qp]

\* EmbeddedFile.__new__ (lines 217-230).
EmbeddedFile(data, maintype, subtype, content_id, charset, filename) ==
    [cls |-> "EmbeddedFile", data |-> data, maintype |-> maintype, subtype |-> subtype,
     content_id |-> content_id, charset |-> charset, filename |-> filename]

\* How the filename parameter of Content-Disposition is written: as it is
\* when us-ascii; otherwise as an RFC 2047 encoded word built by the code on
\* Python 2 (lines 201-206) and as an RFC 2231 parameter by add_header on
\* Python 3.
FilenameCoding(filename, py2) ==
    IF IsNone(filename) \/ is_usascii(filename) THEN "plain"
    ELSE IF py2 THEN "encoded-word utf-8"
    ELSE "rfc2231 utf-8"

\* Attachment.as_mime_part (lines 192-209).
AttachmentAsMimePart(a, py2) ==
    AddHeader(build_mime_part(a.data, a.maintype, a.subtype, a.charset,
                              a.use_quoted_printable),
              "Content-Disposition",
              [disposition |-> "attachment", filename |-> a.filename,
               coding |-> FilenameCoding(a.filename, py2)])

\* '%s' % value.
Str(value) == IF IsNone(value) THEN PyStr(<<"None">>) ELSE value

\* EmbeddedFile.as_mime_part (lines 249-262).
EmbeddedAsMimePart(e) ==
    AddHeader(
        AddHeader(build_mime_part(e.data, e.maintype, e.subtype, e.charset, FALSE),
                  "Content-ID", PyStr(<<"<">> \o Str(e.content_id).str \o <<">">>)),
        "Content-Disposition",
        [disposition |-> "inline",
         filename |-> IF PyTruthy(e.filename) THEN e.filename ELSE PyNone,
         coding |-> "plain"])

\* part.as_mime_part() of either class.
as_mime_part(obj, py2) ==
    IF obj.cls = "Attachment" THEN AttachmentAsMimePart(obj, py2)
    ELSE EmbeddedAsMimePart(obj)

\* isinstance(part, email.mime.base.MIMEBase).
IsMIMEBase(part) == "node" \in DOMAIN part

\* hasattr(part, 'as_mime_part').
HasAsMimePart(part) == "cls" \in DOMAIN part

\* The i-th positional argument of Cls(*part), or the parameter's default.
Arg(part, i, default) == IF i <= Len(part.tuple) THEN part.tuple[i] ELSE default

\* Attachment(*part, use_quoted_printable=...) (lines 393-395).
AttachmentFromTuple(part, qp) ==
    IF Len(part.tuple) \in 1..5
    THEN Ok(Attachment(Arg(part, 1, NoneVal), Arg(part, 2, "application"),
                       Arg(part, 3, "octet-stream"), Arg(part, 4, PyNone),
                       Arg(part, 5, NoneVal), qp))
    ELSE Fail("TypeError")

\* EmbeddedFile(*part) (line 380).
EmbeddedFromTuple(part) ==
    IF Len(part.tuple) \in 1..6
    THEN Ok(EmbeddedFile(Arg(part, 1, NoneVal), Arg(part, 2, "application"),
                         Arg(part, 3, "octet-stream"), Arg(part, 4, PyNone),
                         Arg(part, 5, NoneVal), Arg(part, 6, PyNone)))
    ELSE Fail("TypeError")

\* The body of the loops of lines 377-384 and 390-399: the MIME part that
\* is attached for one entry.
PartForAlwaysConverted(part, kind, qp, py2) ==
    IF HasAsMimePart(part) THEN Ok(as_mime_part(part, py2))
    ELSE IF IsMIMEBase(part) THEN Ok([part EXCEPT !.oid = 0])
    ELSE LET obj == IF kind = "embedded" THEN EmbeddedFromTuple(part)
                    ELSE AttachmentFromTuple(part, qp)
         IN  IF obj.ok THEN Ok(as_mime_part(obj.val, py2)) ELSE Fail(obj.exc)

PartFor(part, kind, qp, py2) ==
    IF IsMIMEBase(part) THEN Ok(part)
    ELSE IF HasAsMimePart(part) THEN Ok(as_mime_part(part, py2))
    ELSE LET obj == IF kind = "embedded" THEN EmbeddedFromTuple(part)
                    ELSE AttachmentFromTuple(part, qp)
         IN  IF obj.ok THEN Ok(as_mime_part(obj.val, py2)) ELSE Fail(obj.exc)

\* The whole loop: every entry attached to the container, in order.
RECURSIVE AttachAll(_, _, _, _, _)
AttachAll(container, parts, kind, qp, py2) ==
    IF ~container.ok \/ Len(parts) = 0 THEN container
    ELSE LET p == PartFor(Head(parts), kind, qp, py2)
         IN  IF ~p.ok THEN Fail(p.exc)
             ELSE AttachAll(Ok(Attach(container.val, p.val)), Tail(parts), kind, qp, py2)

\* bool(part) of a MIME node or None: a Message is true when it has headers.
PartTruthy(part) == ~IsNone(part) /\ Len(part.headers) > 0

\* Lines 353-372: the body from text and html.
MainBodyHtmlFirst(txt, htm, qp) ==
    LET text_part == IF PyTruthy(txt)
                     THEN build_mimetext_part(txt.tuple[1], txt.tuple[2], "plain", qp)
                     ELSE PyNone
        html_part == IF PyTruthy(htm)
                     THEN build_mimetext_part(htm.tuple[1], htm.tuple[2], "html", qp)
                     ELSE PyNone
    IN  IF ~PartTruthy(text_part) /\ ~PartTruthy(html_part)
        THEN MIMEText("", "plain", "us-ascii")
        ELSE IF PartTruthy(text_part) /\ PartTruthy(html_part)
        THEN MIMEMultipart("alternative", <<html_part, text_part>>)
        ELSE IF PyTruthy(htm) THEN html_part ELSE text_part

MainBody(txt, htm, qp) ==
    LET text_part == IF PyTruthy(txt)
                     THEN build_mimetext_part(txt.tuple[1], txt.tuple[2], "plain", qp)
                     ELSE PyNone
        html_part == IF PyTruthy(htm)
                     THEN build_mimetext_part(htm.tuple[1], htm.tuple[2], "html", qp)
                     ELSE PyNone
    IN  IF ~PartTruthy(text_part) /\ ~PartTruthy(html_part)
        THEN MIMEText("", "plain", "us-ascii")
        ELSE IF PartTruthy(text_part) /\ PartTruthy(html_part)
        THEN MIMEMultipart("alternative", <<text_part, html_part>>)
        ELSE IF PyTruthy(htm) THEN html_part ELSE text_part

\* Lines 374-400: wrap main in a multipart of the given subtype and attach
\* the entries, when there are any.
Wrap(main, subtype, parts, kind, qp, py2) ==
    IF ~main.ok \/ Len(parts) = 0 THEN main
    ELSE AttachAll(Ok(Attach(MIMEMultipart(subtype, <<>>), main.val)),
                   parts, kind, qp, py2)

\* build_mail (lines 353-402).
BuildMailResult(txt, htm, atts, embs, qp, py2) ==
    LET body == Ok(MainBody(txt, htm, qp))
        related == Wrap(body, "related", embs, "embedded", FALSE, py2)
        mixed == Wrap(related, "mixed", atts, "attachment", qp, py2)
    IN  IF mixed.ok THEN [status |-> "returned", main |-> mixed.val, exc |-> "None"]
        ELSE [status |-> "raised", main |-> PyNone, exc |-> mixed.exc]

\* ---- the calls of build_mail that are explored
MaxAttach == 2

MaxEmbed == 2

TextPool == {PyNone, PyTuple(<<"", "us-ascii">>), PyTuple(<<"Hello world", "utf-8">>)}

HtmlPool == {PyNone, PyTuple(<<"<p>Hello</p>", "iso-8859-1">>)}

\* A MIME part the caller built itself (an email.mime.base.MIMEBase).
Prebuilt(oid, subtype) ==
    [node |-> "leaf", oid |-> oid,
     headers |-> << ContentType("image", subtype, NoneVal),
                    HeaderField("MIME-Version", PlainValue("1.0")) >>,
     payload |-> "image-bytes"]

\* A built part, an Attachment instance (lines 50-55 of tests/test_generate.py)
\* and the tuple form of the docstring (line 330).
AttachPool ==
    { Prebuilt(1, "png"),
      Attachment("pdf-content", "application", "pdf",
                 PyStr(<<"U+00E4", ".pdf">>), NoneVal, FALSE),
      PyTuple(<<"attached", "text", "plain", PyStr(<<"text.txt">>), "us-ascii">>) }

\* A built part, an EmbeddedFile instance with a content id and one made
\* without (EmbeddedFile(data, 'image', 'png', filename='dot.png')), and the
\* tuple form.
EmbedPool ==
    { Prebuilt(2, "gif"),
      EmbeddedFile("logo-bytes", "image", "jpeg", PyStr(<<"logo">>), NoneVal,
                   PyStr(<<"logo.jpg">>)),
      EmbeddedFile("dot-bytes", "image", "png", PyNone, NoneVal, PyStr(<<"dot.png">>)),
      PyTuple(<<"body {}", "text", "css", PyStr(<<"style">>), "us-ascii">>) }

BuildInit ==
    /\ PY2 \in BOOLEAN
    /\ text \in TextPool
    /\ html \in HtmlPool
    /\ attachments \in SeqsUpTo(AttachPool, MaxAttach)
    /\ embeddeds \in SeqsUpTo(EmbedPool, MaxEmbed)
    /\ use_quoted_printable \in BOOLEAN
    /\ built = NotBuilt
    /\ FromFpIdle
    /\ SendIdle
    /\ MailIdle

\* build_mail(text, html, attachments, embeddeds, use_quoted_printable).
BuildMail ==
    /\ built.status = "none"
    /\ built' = BuildMailResult(text, html, attachments, embeddeds,
                                use_quoted_printable, PY2)
    /\ UNCHANGED <<PY2, sendVars, mailVars, text, html, attachments, embeddeds,
                   use_quoted_printable, fp, from_fp_args, from_fp_out>>

BuildNext == BuildMail

(***************************************************************************)
(* Properties of build_mail.                                               *)
(***************************************************************************)
BuildReturned == built.status = "returned"

IsMultipartOf(n, subtype) ==
    n.node = "multipart" /\ n.headers[1].value.subtype = subtype

IsTextLeaf(n, subtype) ==
    /\ n.node = "leaf"
    /\ n.headers[1].value.maintype = "text"
    /\ n.headers[1].value.subtype = subtype

\* The node under the multipart/mixed wrapper, and under the
\* multipart/related wrapper, when the inputs call for them.
UnderMixed == IF Len(attachments) > 0 THEN built.main.children[1] ELSE built.main

UnderRelated == IF Len(embeddeds) > 0 THEN UnderMixed.children[1] ELSE UnderMixed

\* The multipart nodes of a tree of the given subtype.
RECURSIVE CountMultipart(_, _)
CountMultipart(n, subtype) ==
    IF n.node = "leaf" THEN 0
    ELSE LET below[i \in 0..Len(n.children)] ==
                 IF i = 0 THEN 0
                 ELSE below[i - 1] + CountMultipart(n.children[i], subtype)
         IN  (IF IsMultipartOf(n, subtype) THEN 1 ELSE 0) + below[Len(n.children)]

\* C9: the tree is nested mixed > related > alternative > {text, html}: a
\* multipart/mixed node exists iff attachments is non-empty, a
\* multipart/related node iff embeddeds is non-empty, a multipart/alternative
\* node iff text and html are both given (text first, html second); each
\* wrapper has the inner body as its first child; with neither text nor html
\* the body is an empty text/plain leaf with charset us-ascii.
C9_NestingOrder ==
    BuildReturned =>
        /\ IsMultipartOf(built.main, "mixed") <=> (Len(attachments) > 0)
        /\ CountMultipart(built.main, "mixed") = IF Len(attachments) > 0 THEN 1 ELSE 0
        /\ IsMultipartOf(UnderMixed, "related") <=> (Len(embeddeds) > 0)
        /\ CountMultipart(built.main, "related") = IF Len(embeddeds) > 0 THEN 1 ELSE 0
        /\ IsMultipartOf(UnderRelated, "alternative") <=> (PyTruthy(text) /\ PyTruthy(html))
        /\ CountMultipart(built.main, "alternative")
              = IF PyTruthy(text) /\ PyTruthy(html) THEN 1 ELSE 0
        /\ (PyTruthy(text) /\ PyTruthy(html)) =>
              /\ Len(UnderRelated.children) = 2
              /\ IsTextLeaf(UnderRelated.children[1], "plain")
              /\ UnderRelated.children[1].payload = text.tuple[1]
              /\ IsTextLeaf(UnderRelated.children[2], "html")
              /\ UnderRelated.children[2].payload = html.tuple[1]
        /\ (PyTruthy(text) /\ ~PyTruthy(html)) =>
              /\ IsTextLeaf(UnderRelated, "plain")
              /\ UnderRelated.payload = text.tuple[1]
        /\ (~PyTruthy(text) /\ PyTruthy(html)) =>
              /\ IsTextLeaf(UnderRelated, "html")
              /\ UnderRelated.payload = html.tuple[1]
        /\ (~PyTruthy(text) /\ ~PyTruthy(html)) =>
              /\ IsTextLeaf(UnderRelated, "plain")
              /\ UnderRelated.payload = ""
              /\ UnderRelated.headers[1].value.charset = "us-ascii"

C9_Witness ==
    /\ BuildReturned
    /\ PyTruthy(text) /\ PyTruthy(html)
    /\ Len(attachments) > 0 /\ Len(embeddeds) > 0
    /\ IsMultipartOf(built.main.children[1].children[1], "alternative")

\* The data and the MIME type of an entry that is not a built part.
EntryData(entry) == IF HasAsMimePart(entry) THEN entry.data ELSE entry.tuple[1]

EntryType(entry) ==
    IF HasAsMimePart(entry) THEN <<entry.maintype, entry.subtype>>
    ELSE <<entry.tuple[2], entry.tuple[3]>>

\* The Content-Disposition an entry's as_mime_part writes: that of its class,
\* or for a tuple that of the list it was passed in.
EntryDisposition(entry, kind) ==
    IF HasAsMimePart(entry)
    THEN (IF entry.cls = "Attachment" THEN "attachment" ELSE "inline")
    ELSE (IF kind = "attachment" THEN "attachment" ELSE "inline")

\* child is the part attached for entry: the entry itself when it is a built
\* part, else a part build_mail made from the entry's data and type with the
\* headers as_mime_part adds.
AttachedFor(child, entry, kind) ==
    IF IsMIMEBase(entry) THEN child = entry
    ELSE /\ child.node = "leaf"
         /\ child.oid = 0
         /\ child.payload = EntryData(entry)
         /\ <<child.headers[1].value.maintype, child.headers[1].value.subtype>>
               = EntryType(entry)
         /\ \E i \in DOMAIN child.headers :
               /\ child.headers[i].field = "Content-Disposition"
               /\ child.headers[i].value.disposition = EntryDisposition(entry, kind)
         /\ (EntryDisposition(entry, kind) = "inline") <=> HasHeader(child, "Content-ID")

\* kids are the parts attached for entries: one per entry, in order.
AttachedInOrder(kids, entries, kind) ==
    /\ Len(kids) = Len(entries)
    /\ \A i \in DOMAIN entries : AttachedFor(kids[i], entries[i], kind)

\* C10: the parts appended after the body to the multipart/mixed (resp.
\* multipart/related) node are one part per attachment (resp. embedded)
\* entry, in the caller's order; a built MIME part is attached as that same
\* object, any other entry is converted through as_mime_part.
C10_PartsInOrder ==
    BuildReturned =>
        /\ Len(attachments) > 0 =>
              AttachedInOrder(Tail(built.main.children), attachments, "attachment")
        /\ Len(embeddeds) > 0 =>
              AttachedInOrder(Tail(UnderMixed.children), embeddeds, "embedded")

C10_Witness ==
    /\ BuildReturned
    /\ Len(attachments) = 2
    /\ IsMIMEBase(attachments[2]) /\ ~IsMIMEBase(attachments[1])
    /\ Len(embeddeds) = 2
    /\ IsMIMEBase(embeddeds[1]) /\ ~IsMIMEBase(embeddeds[2]) /\ ~HasAsMimePart(embeddeds[2])
    /\ built.main.children[3] = attachments[2]

\* The leaves build_mail made for the text and for the html argument.
TextLeaf ==
    IF PyTruthy(text) /\ PyTruthy(html) THEN UnderRelated.children[1] ELSE UnderRelated

HtmlLeaf ==
    IF PyTruthy(text) /\ PyTruthy(html) THEN UnderRelated.children[2] ELSE UnderRelated

TransferEncoding(leaf) == HeaderValue(leaf, "Content-Transfer-Encoding").text

\* C17: with quoted-printable mode requested every text leaf built for the
\* text and html bodies uses quoted-printable transfer encoding whatever the
\* charset; without it the charset's default encoding is used.
C17_QuotedPrintableMode ==
    BuildReturned =>
        /\ PyTruthy(text) =>
              TransferEncoding(TextLeaf) =
                 IF use_quoted_printable THEN "quoted-printable"
                 ELSE BodyEncoding(text.tuple[2])
        /\ PyTruthy(html) =>
              TransferEncoding(HtmlLeaf) =
                 IF use_quoted_printable THEN "quoted-printable"
                 ELSE BodyEncoding(html.tuple[2])

C17_Witness ==
    /\ BuildReturned
    /\ use_quoted_printable
    /\ PyTruthy(text) /\ PyTruthy(html)
    /\ BodyEncoding(text.tuple[2]) = "base64"
    /\ TransferEncoding(TextLeaf) = "quoted-printable"

\* The part build_mail attached for the i-th embedded entry.
EmbeddedChild(i) == UnderMixed.children[i + 1]

\* C15: an EmbeddedFile created without a content-id takes its filename as
\* content-id, so the Content-ID header of its leaf is '<filename>'.
C15_ContentIdDefaultsToFilename ==
    BuildReturned =>
        \A i \in DOMAIN embeddeds :
            (/\ HasAsMimePart(embeddeds[i])
             /\ IsNone(embeddeds[i].content_id)
             /\ PyTruthy(embeddeds[i].filename)) =>
                HeaderValue(EmbeddedChild(i), "Content-ID")
                    = PyStr(<<"<">> \o embeddeds[i].filename.str \o <<">">>)

(***************************************************************************)
(* EmbeddedFile.from_fp and guess_mime_type.  A file-like source is a      *)
(* record of its name (None when it has none) and its content; a file      *)
(* name is a str whose directory separators and extension are single       *)
(* characters of the model; a MIME type is the str maintype '/' subtype.   *)
(***************************************************************************)
MimeType(maintype, subtype) == PyStr(<<maintype, "/", subtype>>)

\* mimetypes.guess_type(filename)[0]: the type of the extension, or None.
guess_type(filename) ==
    LET ext == IF Len(filename.str) = 0 THEN "" ELSE filename.str[Len(filename.str)]
    IN  CASE ext = ".png" -> MimeType("image", "png")
          [] ext = ".txt" -> MimeType("text", "plain")
          [] OTHER -> PyNone

\* guess_mime_type (lines 265-273).  The local mime_type is assigned only
\* when the source has a name whose type is guessed; otherwise the test
\* "if mime_type is None" reads a local that was never assigned.
guess_mime_type(f, default_type) ==
    LET filename == f.name
        assigned == PyTruthy(filename) /\ ~IsNone(guess_type(filename))
    IN  IF assigned THEN Ok(guess_type(filename)) ELSE Fail("UnboundLocalError")

\* os.path.basename(fp.name); a source without a name has no such attribute.
basename(f) ==
    IF IsNone(f.name) THEN Fail("AttributeError")
    ELSE Ok(PyStr(SubSeq(f.name.str, LastIndexOf(f.name.str, "/") + 1, Len(f.name.str))))

\* maintype, subtype = mime_type.split('/').
SplitMimeType(mime_type) ==
    IF Cardinality({i \in DOMAIN mime_type.str : mime_type.str[i] = "/"}) = 1
       /\ Len(mime_type.str) = 3 /\ mime_type.str[2] = "/"
    THEN Ok(<<mime_type.str[1], mime_type.str[3]>>)
    ELSE Fail("ValueError")

DefaultType == MimeType("application", "octet-stream")

\* EmbeddedFile.from_fp(fp, mime_type, content_id, filename) (lines 232-247).
from_fp(f, mime_type, content_id, filename) ==
    LET mt == IF IsNone(mime_type) THEN guess_mime_type(f, DefaultType) ELSE Ok(mime_type)
        fn == IF IsNone(filename) THEN basename(f) ELSE Ok(filename)
        cid == IF IsNone(content_id) THEN fn.val ELSE content_id
        parts == SplitMimeType(mt.val)
    IN  IF ~mt.ok THEN Fail(mt.exc)
        ELSE IF ~fn.ok THEN Fail(fn.exc)
        ELSE IF ~parts.ok THEN Fail(parts.exc)
        ELSE Ok(EmbeddedFile(f.content, parts.val[1], parts.val[2], cid, NoneVal, fn.val))

\* ---- the calls of from_fp that are explored
\* A source without a name (io.BytesIO), names with a known extension, with
\* and without a directory, a name without extension and an empty name.
FilePool ==
    { [name |-> PyNone, content |-> "bytes"],
      [name |-> PyStr(<<"logo", ".png">>), content |-> "bytes"],
      [name |-> PyStr(<<"img", "/", "note", ".txt">>), content |-> "bytes"],
      [name |-> PyStr(<<"blob">>), content |-> "bytes"],
      [name |-> PyStr(<<>>), content |-> "bytes"] }

MimeTypePool == {PyNone, MimeType("image", "gif"), PyStr(<<"gif">>)}

FromFpInit ==
    /\ PY2 \in BOOLEAN
    /\ fp \in FilePool
    /\ from_fp_args \in [mime_type : MimeTypePool,
                         content_id : {PyNone, PyStr(<<"cid1">>)},
                         filename : {PyNone, PyStr(<<"pic", ".gif">>)}]
    /\ from_fp_out = NotRead
    /\ text = PyNone
    /\ html = PyNone
    /\ attachments = <<>>
    /\ embeddeds = <<>>
    /\ use_quoted_printable = FALSE
    /\ built = NotBuilt
    /\ SendIdle
    /\ MailIdle

\* EmbeddedFile.from_fp(fp, mime_type=..., content_id=..., filename=...).
FromFp ==
    /\ from_fp_out.status = "none"
    /\ LET r == from_fp(fp, from_fp_args.mime_type, from_fp_args.content_id,
                        from_fp_args.filename)
       IN  from_fp_out' = IF r.ok THEN [status |-> "returned", file |-> r.val, exc |-> "None"]
                          ELSE [status |-> "raised", file |-> PyNone, exc |-> r.exc]
    /\ UNCHANGED <<PY2, sendVars, mailVars, text, html, attachments, embeddeds,
                   use_quoted_printable, built, fp, from_fp_args>>

\* build_mail(None, embeddeds=[the file from_fp returned]).
BuildMailEmbedding ==
    /\ from_fp_out.status = "returned"
    /\ built.status = "none"
    /\ embeddeds' = <<from_fp_out.file>>
    /\ built' = BuildMailResult(text, html, attachments, embeddeds',
                                use_quoted_printable, PY2)
    /\ UNCHANGED <<PY2, sendVars, mailVars, text, html, attachments,
                   use_quoted_printable, fp, from_fp_args, from_fp_out>>

FromFpNext ==
    \/ FromFp
    \/ BuildMailEmbedding

\* The type guess_mime_type is to return for a source.
ExpectedGuess(f) ==
    IF PyTruthy(f.name) /\ ~IsNone(guess_type(f.name)) THEN guess_type(f.name)
    ELSE DefaultType

\* C20: guess_mime_type returns default_type when fp has no name or the
\* type of the name cannot be guessed and the guessed type otherwise, and
\* never raises: from_fp with mime_type=None succeeds for every source that
\* has a name or is given a filename, with the type guess_mime_type owes.
C20_GuessNeverRaises ==
    (/\ from_fp_out.status # "none"
     /\ IsNone(from_fp_args.mime_type)
     /\ ~IsNone(fp.name) \/ ~IsNone(from_fp_args.filename)) =>
        /\ from_fp_out.status = "returned"
        /\ MimeType(from_fp_out.file.maintype, from_fp_out.file.subtype) = ExpectedGuess(fp)

(***************************************************************************)
(* Specifications.                                                         *)
(***************************************************************************)
Init == SendInit /\ MailIdle /\ BuildIdle

Next == SendNext

\* send_mail: one call, from the connection to the returned value.
Spec == Init /\ [][Next]_vars

\* complete_mail: one call on a freshly built body.
SpecComplete == CompleteInit /\ [][CompleteNext]_vars

\* build_mail: one call.
SpecBuild == BuildInit /\ [][BuildNext]_vars

\* EmbeddedFile.from_fp, and build_mail with the file it returned.
SpecFromFp == FromFpInit /\ [][FromFpNext]_vars

\* format_addresses: one call.
SpecFormat == FormatInit /\ [][FormatNext]_vars

\* complete_mail with dates and message-id seeds: one call, then a second.
SpecStamp == StampInit /\ [][StampNext]_vars

====
